---- MODULE Spec2Model ----
(***************************************************************************)
(* MediaGrid chunked upload: the upload-chunk endpoint of the server, the  *)
(* chunk slots and the final file on its disk, uploadFileChunked of the    *)
(* client with its localStorage ledger, uploadMultipleFiles with its two   *)
(* phases, and the scan of the storage by checkPendingUploads.             *)
(***************************************************************************)
EXTENDS Integers, Sequences, FiniteSets, TLC

\* ------------------------------------------------------------------ bounds
FileSize == 7          \* bytes of the source file (file.size)
CHUNK_SIZE == 2        \* bytes per chunk (10 MiB in the source, scaled)
MaxHandlers == 3       \* upload-chunk requests the server holds at once
MaxReq == 5            \* requests a sender other than the orchestrator issues
MaxInFlight == 2       \* requests the server is handling at the same time
MaxRuns == 2           \* runs of uploadFileChunked for the file
MaxFaults == 6         \* requests that fail on the network
MaxFaultyRuns == 1     \* runs, from the first, in which upload-chunk requests fail on the network
MaxFaulty == 1         \* chunks whose requests fail on the network
MaxFiles == 6          \* files given to one call of uploadMultipleFiles
LARGE_FILE_THRESHOLD == 5  \* bytes (50 MiB in the source, scaled)
MaxRecords == 3        \* entries of the localStorage at a page load
MaxNameLen == 4        \* characters of a file name given to sanitizeFilename
DirTotalChunks == 2    \* totalChunks of the files uploaded to one target directory
MaxUploads == 4        \* upload-chunk requests to that directory
RandomSteps == 100     \* Math.random() is one of 0/100, 1/100, ..., 99/100
OtherFileSize == 11    \* bytes of another file that has the same name
MaxResumeRuns == 3     \* runs of the file in the resume model
MaxTargetRuns == 2     \* runs of the file in the model of two target directories
MaxSliceSize == 12     \* largest file.size that is sliced
MaxSliceChunk == 5     \* largest chunk size that is sliced with

\* ------------------------------------------------------- program constants
CONCURRENT_CHUNKS == 3
MAX_RETRIES == 5
SMALL_FILE_CONCURRENCY == 4

\* ---------------------------------------------------------------- helpers
Min(a, b) == IF a < b THEN a ELSE b
Max(a, b) == IF a > b THEN a ELSE b

\* const totalChunks = Math.ceil(file.size / CHUNK_SIZE)
TotalChunks == (FileSize + CHUNK_SIZE - 1) \div CHUNK_SIZE

Chunks == 0 .. (TotalChunks - 1)
HIds == 1 .. MaxHandlers

\* the source file: byte p of the file has the value p
FileBytes == [p \in 1 .. FileSize |-> p]

\* file.slice(chunkIndex * CHUNK_SIZE, Math.min(start + CHUNK_SIZE, file.size))
ChunkBytes(i) == SubSeq(FileBytes, i * CHUNK_SIZE + 1, Min(i * CHUNK_SIZE + CHUNK_SIZE, FileSize))

NoSlot == <<-1>>
NoFile == <<-1>>

VARIABLES
  slots,       \* tempDir: [Chunks -> bytes of <name>.part<i>, or NoSlot]
  tempDir,     \* TRUE iff <uploadsPath>/.chunks exists
  finalFile,   \* bytes of <uploadsPath>/<name>, or NoFile
  handlers,    \* [HIds -> one upload-chunk request being handled]
  delivered,   \* history: [Chunks -> times index i was received]
  overlapped,  \* history: a request started while another was being handled
  outOfOrder,  \* history: an index arrived after a larger one
  reassembled, \* history: requests that entered the reassembly loop
  ledger,      \* localStorage[progressKey]: the persisted record, or NoLedger
  up,          \* uploadProgress of the running uploadFileChunked, or NoLedger
  cpc,         \* where uploadFileChunked stands
  startChunkIndex,
  remaining,   \* remainingChunks
  bi,          \* i of the batch loop
  task,        \* [Chunks -> the async task of chunkPromises for that index]
  chk,         \* the check-chunks request of this run
  run,         \* history of the current run
  files,       \* uploadMultipleFiles: the sizes of the files given
  smallFiles,  \* indices into files, in order
  largeFiles,  \* indices into files, in order
  bpc,         \* where uploadMultipleFiles stands
  fidx,        \* i of the loop of the current phase
  fstat,       \* [file -> state of its uploadFile promise]
  successCount,
  failedFiles, \* the files pushed to failedFiles, in order
  totalProcessed,
  localStorage, \* the entries of the storage, in key(i) order
  scanned,     \* history: the entries when checkPendingUploads was called
  pendingUploads, \* the keys given to setPendingUploads
  spc,         \* where the page stands with its storage scan
  route,       \* [file -> the path uploadFile took for it]
  chunkDir,    \* the names of the files in <uploadsPath>/.chunks
  chunkDirExists, \* TRUE iff that directory exists
  finalPaths,  \* the files assembled in <uploadsPath>: [name, path], the path
               \* with the client's name that was assembled to it
  reply,       \* the last response of upload-chunk in the directory model
  uploads,     \* the number of upload-chunk requests the directory has seen
  query,       \* the check-chunks request being handled
  written,     \* history: what upload-chunk wrote, [name, idx, file]
  filename,    \* sanitizeFilename: the name given
  sanitized,   \* sanitizeFilename(filename)
  resanitized, \* sanitizeFilename(sanitized)
  fileSize,    \* slicing: file.size
  chunkSize,   \* slicing: CHUNK_SIZE
  sliceIdx,    \* slicing: the next chunkIndex
  sliced,      \* slicing: the bytes of the chunks 0 .. sliceIdx - 1, in order
  waitAttempt, \* backoff: the attempts of a chunk that have failed
  baseDelay,  \* backoff: baseDelay of the wait that follows, ms
  delay,      \* backoff: baseDelay + jitter, ms
  named,      \* resume: the indices of the slots the server holds for the name
  rec,        \* resume: the persisted record of the file, or NoLedger
  recRuns,    \* resume: the runs of the file that have started
  dirSlots,   \* targets: [directory -> the indices of the slots of the file in its .chunks]
  progress,   \* targets: the record under progressKey, or NoLedger
  progressDir, \* targets: the directory of the run that created the record
  target,     \* targets: the directory of the run under way, or "none"
  unsent,       \* targets: remainingChunks not yet acknowledged
  skipped,    \* targets: the chunks the run under way does not send
  heldAtStart, \* targets: the slots of the directory when the run started
  targetRuns, \* targets: the runs that have started
  wpc,        \* stream: the position of the request that assembles the file
  wk,         \* stream: i of the loop
  queued,     \* stream: the bytes handed to writeStream.write and not yet in the file
  onDisk,     \* stream: the bytes of the final file, NoFile before it is created
  statSize,   \* stream: stats.size of the response, -1 before it
  seen        \* stream: what a reader of the final file gets when the response is sent

histVars == <<delivered, overlapped, outOfOrder, reassembled>>

serverVars == <<slots, tempDir, finalFile, handlers>>

clientVars == <<ledger, up, cpc, startChunkIndex, remaining, bi, task, chk, run>>

batchVars == <<files, smallFiles, largeFiles, bpc, fidx, fstat, successCount, failedFiles, totalProcessed, route>>

dirVars == <<chunkDir, chunkDirExists, finalPaths, reply, uploads, query, written>>

nameVars == <<filename, sanitized, resanitized>>

sliceVars == <<fileSize, chunkSize, sliceIdx, sliced>>

scanVars == <<localStorage, scanned, pendingUploads, spc>>

waitVars == <<waitAttempt, baseDelay, delay>>

resumeVars == <<named, rec, recRuns>>

targetVars == <<dirSlots, progress, progressDir, target, unsent, skipped, heldAtStart, targetRuns>>

streamVars == <<wpc, wk, queued, onDisk, statSize, seen>>

vars == <<slots, tempDir, finalFile, handlers, delivered, overlapped, outOfOrder, reassembled,
          ledger, up, cpc, startChunkIndex, remaining, bi, task, chk, run,
          files, smallFiles, largeFiles, bpc, fidx, fstat, successCount, failedFiles, totalProcessed,
          localStorage, scanned, pendingUploads, spc, route,
          chunkDir, chunkDirExists, finalPaths, reply, uploads, query, written,
          filename, sanitized, resanitized, fileSize, chunkSize, sliceIdx, sliced,
          waitAttempt, baseDelay, delay,
          named, rec, recRuns,
          dirSlots, progress, progressDir, target, unsent, skipped, heldAtStart, targetRuns,
          wpc, wk, queued, onDisk, statSize, seen>>

FreeHandler == [pc |-> "free", idx |-> 0, k |-> 0, pos |-> 0, cnt |-> 0,
                owner |-> "none", last |-> FALSE, res |-> "none", lacks |-> "none"]

\* the parameters of the query string of upload-chunk
Params == {"filename", "chunkIndex", "totalChunks", "targetPath"}

\* variant: the index is not looked at
MissingRequiredNoIndex(lacks) == lacks \in {"filename", "totalChunks"}

\* if (!filename || chunkIndex === undefined || !totalChunks)
MissingRequired(lacks) == lacks \in {"filename", "chunkIndex", "totalChunks"}

\* variant: uploaded: parseInt(chunkIndex) + 1
UploadedByIndex(fc, idx) == idx + 1

\* uploaded: fileChunks.length
Uploaded(fc, idx) == Cardinality(fc)

\* fileChunks = uploadedChunks.filter(c => c.startsWith(`${name}.part`))
FileChunks(s) == {i \in Chunks : s[i] # NoSlot}

Busy(h) == handlers[h].pc \notin {"free", "replied"}

\* variant: fs.appendFile, a second write of the slot adds to it
WriteSlotAppend(s, i, bytes) == [s EXCEPT ![i] = IF @ = NoSlot THEN bytes ELSE @ \o bytes]

\* fs.writeFile(chunkPath, req.body): creates or overwrites the slot
WriteSlot(s, i, bytes) == [s EXCEPT ![i] = bytes]

\* variant: the count is taken for the count before this chunk
IsCompleteOffByOne(cnt, total) == cnt + 1 = total

\* if (fileChunks.length === parseInt(totalChunks))
IsComplete(cnt, total) == cnt = total

\* writeStream.write(chunkData) on a stream whose descriptor stands at pos
WriteAt(f, pos, d) ==
  [q \in 1 .. Max(Len(f), pos + Len(d)) |->
     IF q > pos /\ q <= pos + Len(d) THEN d[q - pos]
     ELSE IF q <= Len(f) THEN f[q] ELSE 0]

NoLedger == [completedChunks |-> {-1}, lastError |-> FALSE]
NoTask == [st |-> "none", retryAttempt |-> 0, h |-> 0]
NoCheck == [st |-> "none", existingChunks |-> {}]
NoRun == [n |-> 0, faults |-> 0, faulty |-> {}, sent |-> {}, K |-> {}, held |-> {},
          queried |-> FALSE, sawComplete |-> FALSE, clean |-> TRUE, acked |-> {},
          checkFailed |-> FALSE]

\* variant: only the first save of a record reaches the storage
PersistFirstOnly(stored, u) == IF stored = NoLedger THEN u ELSE stored

\* localStorage.setItem(progressKey, JSON.stringify(uploadProgress))
Persist(stored, u) == u

\* variant: the record is removed only when it lists every chunk
RemoveItemIfFull(stored) ==
  IF stored # NoLedger /\ Cardinality(stored.completedChunks) >= TotalChunks THEN NoLedger ELSE stored

\* localStorage.removeItem(progressKey)
RemoveItem(stored) == NoLedger

\* variant: the record of this chunk replaces the map
MarkCompletedAlone(u, i) == [u EXCEPT !.completedChunks = {i}]

\* uploadProgress.completedChunks[chunkIndex] = true
MarkCompleted(u, i) == [u EXCEPT !.completedChunks = @ \cup {i}]

\* variant: the catch saves a fresh record with the error
SaveErrorFresh(u) == [completedChunks |-> {}, lastError |-> TRUE]

\* uploadProgress.lastError = error.message
SaveError(u) == [u EXCEPT !.lastError = TRUE]

NoReply == [name |-> << >>, idx |-> 0, res |-> "none", counted |-> 0]
NoQuery == [pc |-> "none", name |-> << >>, existed |-> FALSE, listing |-> {}, existingChunks |-> << >>]

Init ==
  /\ slots = [i \in Chunks |-> NoSlot]
  /\ tempDir = FALSE
  /\ finalFile = NoFile
  /\ handlers = [h \in HIds |-> FreeHandler]
  /\ delivered = [i \in Chunks |-> 0]
  /\ overlapped = FALSE
  /\ outOfOrder = FALSE
  /\ reassembled = 0
  /\ ledger = NoLedger
  /\ up = NoLedger
  /\ cpc = "idle"
  /\ startChunkIndex = 0
  /\ remaining = << >>
  /\ bi = 0
  /\ task = [i \in Chunks |-> NoTask]
  /\ chk = NoCheck
  /\ run = NoRun
  /\ files = << >>
  /\ smallFiles = << >>
  /\ largeFiles = << >>
  /\ bpc = "idle"
  /\ fidx = 0
  /\ fstat = [f \in 1 .. MaxFiles |-> "none"]
  /\ successCount = 0
  /\ failedFiles = << >>
  /\ totalProcessed = 0
  /\ localStorage = << >>
  /\ scanned = << >>
  /\ pendingUploads = << >>
  /\ spc = "closed"
  /\ route = [f \in 1 .. MaxFiles |-> "none"]
  /\ chunkDir = {}
  /\ chunkDirExists = FALSE
  /\ finalPaths = {}
  /\ reply = NoReply
  /\ uploads = 0
  /\ query = NoQuery
  /\ written = {}
  /\ filename = << >>
  /\ sanitized = << >>
  /\ resanitized = << >>
  /\ fileSize = 0
  /\ chunkSize = 0
  /\ sliceIdx = 0
  /\ sliced = << >>
  /\ waitAttempt = 0
  /\ baseDelay = 0
  /\ delay = 0
  /\ named = {}
  /\ rec = NoLedger
  /\ recRuns = 0
  /\ dirSlots = [d \in {"/", "/b"} |-> {}]
  /\ progress = NoLedger
  /\ progressDir = "none"
  /\ target = "none"
  /\ unsent = {}
  /\ skipped = {}
  /\ heldAtStart = {}
  /\ targetRuns = 0
  /\ wpc = "idle"
  /\ wk = 0
  /\ queued = << >>
  /\ onDisk = NoFile
  /\ statSize = -1
  /\ seen = NoFile

\* ------------------------------------------ app.post('/api/upload-chunk')
\* the request arrives: parameters are checked, uploadsPath and tempDir are
\* created synchronously and fs.writeFile is started
StartHandler(h, i, who) ==
  /\ handlers[h].pc = "free"
  /\ \A g \in HIds : g < h => handlers[g].pc # "free"
  /\ handlers' = [handlers EXCEPT ![h] = [FreeHandler EXCEPT !.pc = "write", !.idx = i, !.owner = who]]
  /\ tempDir' = TRUE
  /\ UNCHANGED <<slots, finalFile, reassembled>>

Fail(h) == [handlers EXCEPT ![h].pc = "replied", ![h].res = "error"]

\* await fs.writeFile(chunkPath, req.body)
WriteChunk(h) ==
  /\ handlers[h].pc = "write"
  /\ IF tempDir
       THEN /\ slots' = WriteSlot(slots, handlers[h].idx, ChunkBytes(handlers[h].idx))
            /\ handlers' = [handlers EXCEPT ![h].pc = "count",
                 ![h].last = (FileChunks(slots) # Chunks /\ FileChunks(slots') = Chunks)]
       ELSE /\ handlers' = Fail(h)
            /\ UNCHANGED slots
  /\ UNCHANGED <<tempDir, finalFile, delivered, overlapped, outOfOrder, reassembled>>
  /\ UNCHANGED clientVars
  /\ UNCHANGED <<batchVars, scanVars, dirVars, nameVars, sliceVars, waitVars, resumeVars, targetVars, streamVars>>

\* await fs.readdir(tempDir); the filter; the comparison with totalChunks;
\* fs.createWriteStream(finalPath) when all chunks are there
CountChunks(h) ==
  /\ handlers[h].pc = "count"
  /\ LET cnt == Cardinality(FileChunks(slots)) IN
       IF ~tempDir
         THEN /\ handlers' = Fail(h)
              /\ UNCHANGED <<finalFile, reassembled>>
         ELSE IF IsComplete(cnt, TotalChunks)
           THEN /\ handlers' = [handlers EXCEPT ![h].pc = "read", ![h].cnt = cnt, ![h].k = 0, ![h].pos = 0]
                /\ finalFile' = << >>
                /\ reassembled' = reassembled + 1
           ELSE /\ handlers' = [handlers EXCEPT ![h].pc = "replied", ![h].res = "partial",
                                   ![h].cnt = Uploaded(FileChunks(slots), handlers[h].idx)]
                /\ UNCHANGED <<finalFile, reassembled>>
  /\ UNCHANGED <<slots, tempDir, delivered, overlapped, outOfOrder>>
  /\ UNCHANGED clientVars
  /\ UNCHANGED <<batchVars, scanVars, dirVars, nameVars, sliceVars, waitVars, resumeVars, targetVars, streamVars>>

\* variant: the loop takes the slots from the last to the first
LoopSlotDescending(i) == TotalChunks - 1 - i

\* chunkPath of pass i of the loop: `${sanitizedFilename}.part${i}`
LoopSlot(i) == i

\* await fs.readFile(chunkPath); writeStream.write(chunkData)
ReadChunk(h) ==
  /\ handlers[h].pc = "read"
  /\ LET k == LoopSlot(handlers[h].k) IN
       IF slots[k] = NoSlot
         THEN /\ handlers' = Fail(h)
              /\ UNCHANGED finalFile
         ELSE /\ finalFile' = WriteAt(finalFile, handlers[h].pos, slots[k])
              /\ handlers' = [handlers EXCEPT ![h].pc = "unlink", ![h].pos = @ + Len(slots[k])]
  /\ UNCHANGED <<slots, tempDir, delivered, overlapped, outOfOrder, reassembled>>
  /\ UNCHANGED clientVars
  /\ UNCHANGED <<batchVars, scanVars, dirVars, nameVars, sliceVars, waitVars, resumeVars, targetVars, streamVars>>

\* await fs.unlink(chunkPath); next i of the loop
UnlinkChunk(h) ==
  /\ handlers[h].pc = "unlink"
  /\ LET k == LoopSlot(handlers[h].k) IN
       IF slots[k] = NoSlot
         THEN /\ handlers' = Fail(h)
              /\ UNCHANGED slots
         ELSE /\ slots' = [slots EXCEPT ![k] = NoSlot]
              /\ handlers' = [handlers EXCEPT ![h].k = @ + 1,
                   ![h].pc = IF handlers[h].k + 1 < TotalChunks THEN "read" ELSE "rmdir"]
  /\ UNCHANGED <<tempDir, finalFile, delivered, overlapped, outOfOrder, reassembled>>
  /\ UNCHANGED clientVars
  /\ UNCHANGED <<batchVars, scanVars, dirVars, nameVars, sliceVars, waitVars, resumeVars, targetVars, streamVars>>

\* writeStream.end(); try { await fs.rmdir(tempDir) } catch (e) {}
RemoveTempDir(h) ==
  /\ handlers[h].pc = "rmdir"
  /\ tempDir' = (tempDir /\ FileChunks(slots) # {})
  /\ handlers' = [handlers EXCEPT ![h].pc = "stat"]
  /\ UNCHANGED <<slots, finalFile, delivered, overlapped, outOfOrder, reassembled>>
  /\ UNCHANGED clientVars
  /\ UNCHANGED <<batchVars, scanVars, dirVars, nameVars, sliceVars, waitVars, resumeVars, targetVars, streamVars>>

\* await fs.stat(finalPath); res.json({ file, chunked: true })
StatFile(h) ==
  /\ handlers[h].pc = "stat"
  /\ handlers' = [handlers EXCEPT ![h].pc = "replied", ![h].res = "complete", ![h].cnt = Len(finalFile)]
  /\ UNCHANGED <<slots, tempDir, finalFile, delivered, overlapped, outOfOrder, reassembled>>
  /\ UNCHANGED clientVars
  /\ UNCHANGED <<batchVars, scanVars, dirVars, nameVars, sliceVars, waitVars, resumeVars, targetVars, streamVars>>

ServerStep ==
  \E h \in HIds :
    \/ WriteChunk(h)
    \/ CountChunks(h)
    \/ ReadChunk(h)
    \/ UnlinkChunk(h)
    \/ RemoveTempDir(h)
    \/ StatFile(h)

\* ------------------------------------------- a sender of single requests
Sum(f, S) == IF S = {} THEN 0 ELSE LET RECURSIVE Go(_) Go(T) == IF T = {} THEN 0 ELSE LET x == CHOOSE y \in T : TRUE IN f[x] + Go(T \ {x}) IN Go(S)

Deliver(h, i) ==
  /\ Sum(delivered, Chunks) < MaxReq
  /\ Cardinality({g \in HIds : handlers[g].pc # "free"}) < MaxInFlight
  /\ StartHandler(h, i, "sender")
  /\ delivered' = [delivered EXCEPT ![i] = @ + 1]
  /\ overlapped' = (overlapped \/ \E g \in HIds : Busy(g))
  /\ outOfOrder' = (outOfOrder \/ \E j \in Chunks : j > i /\ delivered[j] > 0)
  /\ UNCHANGED clientVars
  /\ UNCHANGED <<batchVars, scanVars, dirVars, nameVars, sliceVars, waitVars, resumeVars, targetVars, streamVars>>

\* a request without one of its parameters: without filename, chunkIndex or
\* totalChunks it is answered 400 before anything is touched; without
\* targetPath the uploads root is the target (targetPath || '/'). Such a
\* request comes while no other is being handled; the one without targetPath
\* is the first request of all
DeliverLacking(h, i, lacks) ==
  /\ Sum(delivered, Chunks) < MaxReq
  /\ Cardinality({g \in HIds : handlers[g].pc # "free"}) < MaxInFlight
  /\ \A g \in HIds : handlers[g].pc = "free"
  /\ h = 1
  /\ MissingRequired(lacks) => i = 0
  /\ ~MissingRequired(lacks) => Sum(delivered, Chunks) = 0
  /\ IF MissingRequired(lacks)
       THEN /\ handlers' = [handlers EXCEPT ![h] =
                 [FreeHandler EXCEPT !.pc = "replied", !.res = "error", !.idx = i,
                                     !.owner = "sender", !.lacks = lacks]]
            /\ UNCHANGED <<tempDir, delivered, overlapped, outOfOrder>>
       ELSE /\ handlers' = [handlers EXCEPT ![h] =
                 [FreeHandler EXCEPT !.pc = "write", !.idx = i, !.owner = "sender", !.lacks = lacks]]
            /\ tempDir' = TRUE
            /\ delivered' = [delivered EXCEPT ![i] = @ + 1]
            /\ overlapped' = (overlapped \/ \E g \in HIds : Busy(g))
            /\ outOfOrder' = (outOfOrder \/ \E j \in Chunks : j > i /\ delivered[j] > 0)
  /\ UNCHANGED <<slots, finalFile, reassembled>>
  /\ UNCHANGED clientVars
  /\ UNCHANGED <<batchVars, scanVars, dirVars, nameVars, sliceVars, waitVars, resumeVars, targetVars, streamVars>>

\* the response reaches the sender
TakeReply(h) ==
  /\ handlers[h].pc = "replied"
  /\ handlers[h].owner = "sender"
  /\ handlers' = [handlers EXCEPT ![h] = FreeHandler]
  /\ UNCHANGED <<slots, tempDir, finalFile, delivered, overlapped, outOfOrder, reassembled>>
  /\ UNCHANGED clientVars
  /\ UNCHANGED <<batchVars, scanVars, dirVars, nameVars, sliceVars, waitVars, resumeVars, targetVars, streamVars>>

ServerNext ==
  \/ \E h \in HIds, i \in Chunks : Deliver(h, i)
  \/ \E h \in HIds, i \in Chunks, lacks \in Params : DeliverLacking(h, i, lacks)
  \/ \E h \in HIds : TakeReply(h)
  \/ ServerStep

ServerSpec == Init /\ [][ServerNext]_vars

\* --------------------------------------------------- uploadFileChunked
MaxOf(S) == CHOOSE x \in S : \A y \in S : y <= x

\* completedChunks[completedChunks.length - 1] + 1 of the sorted keys, else 0
ResumeIndex(K) == IF K = {} THEN 0 ELSE MaxOf(K) + 1

\* variant: the loop starts at 0 and skips nothing
RemainingNoSkip(start, K) == [j \in 1 .. TotalChunks |-> j - 1]

\* for (chunkIndex = startChunkIndex; chunkIndex < totalChunks; chunkIndex++)
\*   if (!uploadProgress.completedChunks[chunkIndex]) remainingChunks.push(chunkIndex)
RECURSIVE RemainingChunks(_, _)
RemainingChunks(start, K) ==
  IF start >= TotalChunks THEN << >>
  ELSE (IF start \in K THEN << >> ELSE <<start>>) \o RemainingChunks(start + 1, K)

\* variant: remainingChunks.slice(i), the whole rest at once
ChunkBatchAll(rem, i) == {rem[j] : j \in (i + 1) .. Len(rem)}

\* remainingChunks.slice(i, i + CONCURRENT_CHUNKS)
ChunkBatch(rem, i) == {rem[j] : j \in (i + 1) .. Min(i + CONCURRENT_CHUNKS, Len(rem))}

\* variant: retryAttempt < MAX_RETRIES
CanRetryStrict(retryAttempt) == retryAttempt < MAX_RETRIES

\* while (!chunkUploaded && retryAttempt <= MAX_RETRIES) / if (retryAttempt <= MAX_RETRIES)
CanRetry(retryAttempt) == retryAttempt <= MAX_RETRIES

\* the catch of one attempt: retryAttempt++, then backoff or the final throw
AttemptFailed(t) ==
  [st |-> IF CanRetry(t.retryAttempt + 1) THEN "backoff" ELSE "rejected",
   retryAttempt |-> t.retryAttempt + 1, h |-> 0]

NewTask == [st |-> "inflight", retryAttempt |-> 0, h |-> 0]

\* the remaining chunks are computed and the first batch is sent; with nothing
\* remaining the loop is skipped and the record removed
BeginUpload(persisted, u, start, r) ==
  LET rem == RemainingChunks(start, u.completedChunks)
      batch == ChunkBatch(rem, 0)
  IN /\ startChunkIndex' = start
     /\ remaining' = rem
     /\ bi' = 0
     /\ chk' = NoCheck
     /\ task' = [i \in Chunks |-> IF i \in batch THEN NewTask ELSE NoTask]
     /\ run' = [r EXCEPT !.K = u.completedChunks, !.sent = batch]
     /\ IF rem = << >>
          THEN /\ ledger' = RemoveItem(persisted)
               /\ up' = NoLedger
               /\ cpc' = "success"
          ELSE /\ ledger' = persisted
               /\ up' = u
               /\ cpc' = "uploading"

\* the user selects the file: the record is loaded or initialised and saved;
\* check-chunks is asked only when startChunkIndex > 0
StartRun ==
  /\ cpc \in {"idle", "success", "failed"}
  /\ run.n < MaxRuns
  /\ \A h \in HIds : handlers[h].pc = "free"
  /\ LET u == IF ledger = NoLedger THEN [completedChunks |-> {}, lastError |-> FALSE] ELSE ledger
         start == ResumeIndex(u.completedChunks)
         r == [NoRun EXCEPT !.n = run.n + 1, !.held = FileChunks(slots),
                 !.acked = IF ledger = NoLedger THEN {} ELSE run.acked,
                 !.faults = IF run.n < MaxFaultyRuns THEN run.faults ELSE 0,
                 !.faulty = IF run.n < MaxFaultyRuns THEN run.faulty ELSE {}]
     IN IF start > 0
          THEN /\ ledger' = Persist(ledger, u)
               /\ up' = u
               /\ cpc' = "checking"
               /\ chk' = [NoCheck EXCEPT !.st = "sent"]
               /\ startChunkIndex' = start
               /\ remaining' = << >>
               /\ bi' = 0
               /\ task' = [i \in Chunks |-> NoTask]
               /\ run' = [r EXCEPT !.queried = TRUE]
          ELSE BeginUpload(Persist(ledger, u), u, start, r)
  /\ UNCHANGED <<serverVars, histVars>>
  /\ UNCHANGED <<batchVars, scanVars, dirVars, nameVars, sliceVars, waitVars, resumeVars, targetVars, streamVars>>

\* app.get('/api/check-chunks'): the indices of the slots in tempDir
ServeCheck ==
  /\ chk.st = "sent"
  /\ chk' = [st |-> "ok", existingChunks |-> IF tempDir THEN FileChunks(slots) ELSE {}]
  /\ UNCHANGED <<serverVars, histVars, ledger, up, cpc, startChunkIndex, remaining, bi, task, run>>
  /\ UNCHANGED <<batchVars, scanVars, dirVars, nameVars, sliceVars, waitVars, resumeVars, targetVars, streamVars>>

\* checkResponse.ok: the reported indices are merged and the record saved
CheckDone ==
  /\ cpc = "checking"
  /\ chk.st = "ok"
  /\ LET u == [up EXCEPT !.completedChunks = @ \cup chk.existingChunks]
     IN BeginUpload(Persist(ledger, u), u, Max(startChunkIndex, ResumeIndex(u.completedChunks)),
                    [run EXCEPT !.acked = @ \cup chk.existingChunks])
  /\ UNCHANGED <<serverVars, histVars>>
  /\ UNCHANGED <<batchVars, scanVars, dirVars, nameVars, sliceVars, waitVars, resumeVars, targetVars, streamVars>>

\* variant: what the server listed is merged although the query failed
MergeAnyway(u, c) == [u EXCEPT !.completedChunks = @ \cup c.existingChunks]

\* catch (error) of the query: console.warn, uploadProgress is left as it is
ContinueWithLocal(u, c) == u

\* the fetch of check-chunks throws or answers non-ok: local progress is used
CheckFail ==
  /\ cpc = "checking"
  /\ chk.st # "none"
  /\ run.faults < MaxFaults
  /\ BeginUpload(ledger, ContinueWithLocal(up, chk), startChunkIndex,
                 [run EXCEPT !.faults = @ + 1, !.clean = FALSE, !.checkFailed = TRUE])
  /\ UNCHANGED <<serverVars, histVars>>
  /\ UNCHANGED <<batchVars, scanVars, dirVars, nameVars, sliceVars, waitVars, resumeVars, targetVars, streamVars>>

\* the request of task i reaches the server
Arrive(i, h) ==
  /\ cpc = "uploading"
  /\ task[i].st = "inflight"
  /\ task[i].h = 0
  /\ Cardinality({g \in HIds : Busy(g)}) < MaxInFlight
  /\ StartHandler(h, i, "task")
  /\ task' = [task EXCEPT ![i].h = h]
  /\ UNCHANGED <<delivered, overlapped, outOfOrder, ledger, up, cpc, startChunkIndex, remaining, bi, chk, run>>
  /\ UNCHANGED <<batchVars, scanVars, dirVars, nameVars, sliceVars, waitVars, resumeVars, targetVars, streamVars>>

\* the network may fail one more request of chunk i
MayFault(i) ==
  /\ run.n <= MaxFaultyRuns
  /\ run.faults < MaxFaults
  /\ Cardinality(run.faulty \cup {i}) <= MaxFaulty

\* the request never reaches the server: fetch throws
LoseRequest(i) ==
  /\ cpc = "uploading"
  /\ task[i].st = "inflight"
  /\ task[i].h = 0
  /\ MayFault(i)
  /\ task' = [task EXCEPT ![i] = AttemptFailed(@)]
  /\ run' = [run EXCEPT !.faults = @ + 1, !.faulty = @ \cup {i}, !.clean = FALSE]
  /\ UNCHANGED <<serverVars, histVars, ledger, up, cpc, startChunkIndex, remaining, bi, chk>>
  /\ UNCHANGED <<batchVars, scanVars, dirVars, nameVars, sliceVars, waitVars, resumeVars, targetVars, streamVars>>

\* the server has handled the request and its reply is lost: fetch throws
LoseReply(i) ==
  /\ cpc = "uploading"
  /\ task[i].st = "inflight"
  /\ task[i].h # 0
  /\ handlers[task[i].h].pc = "replied"
  /\ MayFault(i)
  /\ handlers' = [handlers EXCEPT ![task[i].h] = FreeHandler]
  /\ task' = [task EXCEPT ![i] = AttemptFailed(@)]
  /\ run' = [run EXCEPT !.faults = @ + 1, !.faulty = @ \cup {i}, !.clean = FALSE]
  /\ UNCHANGED <<slots, tempDir, finalFile, histVars, ledger, up, cpc, startChunkIndex, remaining, bi, chk>>
  /\ UNCHANGED <<batchVars, scanVars, dirVars, nameVars, sliceVars, waitVars, resumeVars, targetVars, streamVars>>

\* !response.ok: the attempt throws
ChunkError(i) ==
  /\ cpc = "uploading"
  /\ task[i].st = "inflight"
  /\ task[i].h # 0
  /\ handlers[task[i].h].pc = "replied"
  /\ handlers[task[i].h].res = "error"
  /\ handlers' = [handlers EXCEPT ![task[i].h] = FreeHandler]
  /\ task' = [task EXCEPT ![i] = AttemptFailed(@)]
  /\ run' = [run EXCEPT !.clean = FALSE]
  /\ UNCHANGED <<slots, tempDir, finalFile, histVars, ledger, up, cpc, startChunkIndex, remaining, bi, chk>>
  /\ UNCHANGED <<batchVars, scanVars, dirVars, nameVars, sliceVars, waitVars, resumeVars, targetVars, streamVars>>

\* response.ok: the chunk is marked completed and the record saved
ChunkOk(i) ==
  /\ cpc = "uploading"
  /\ task[i].st = "inflight"
  /\ task[i].h # 0
  /\ handlers[task[i].h].pc = "replied"
  /\ handlers[task[i].h].res \in {"partial", "complete"}
  /\ handlers' = [handlers EXCEPT ![task[i].h] = FreeHandler]
  /\ up' = MarkCompleted(up, i)
  /\ ledger' = Persist(ledger, up')
  /\ task' = [task EXCEPT ![i] = [@ EXCEPT !.st = "done", !.h = 0]]
  /\ run' = [run EXCEPT !.sawComplete = @ \/ handlers[task[i].h].res = "complete",
                        !.acked = @ \cup {i}]
  /\ UNCHANGED <<slots, tempDir, finalFile, histVars, cpc, startChunkIndex, remaining, bi, chk>>
  /\ UNCHANGED <<batchVars, scanVars, dirVars, nameVars, sliceVars, waitVars, resumeVars, targetVars, streamVars>>

\* the backoff timer fires: the next attempt of the while loop
Retry(i) ==
  /\ cpc = "uploading"
  /\ task[i].st = "backoff"
  /\ task' = [task EXCEPT ![i].st = "inflight"]
  /\ UNCHANGED <<serverVars, histVars, ledger, up, cpc, startChunkIndex, remaining, bi, chk, run>>
  /\ UNCHANGED <<batchVars, scanVars, dirVars, nameVars, sliceVars, waitVars, resumeVars, targetVars, streamVars>>

\* variant: Promise.race, the first chunk to settle ends the wait
SettledFirst ==
  /\ cpc = "uploading"
  /\ \E i \in ChunkBatch(remaining, bi) : task[i].st \in {"done", "rejected"}

\* Promise.allSettled(chunkPromises) has resolved
Settled ==
  /\ cpc = "uploading"
  /\ \A i \in ChunkBatch(remaining, bi) : task[i].st \in {"done", "rejected"}

\* variant: the filter matches no result
RejectedIgnored == {}

\* results.filter(result => result.status === 'rejected')
Rejected == {i \in ChunkBatch(remaining, bi) : task[i].st = "rejected"}

\* failedChunks.length > 0: the throw, then the outer catch saves lastError
FailBatch ==
  /\ Settled
  /\ Rejected # {}
  /\ ledger' = Persist(ledger, SaveError(up))
  /\ up' = NoLedger
  /\ cpc' = "failed"
  /\ UNCHANGED <<serverVars, histVars, startChunkIndex, remaining, bi, task, chk, run>>
  /\ UNCHANGED <<batchVars, scanVars, dirVars, nameVars, sliceVars, waitVars, resumeVars, targetVars, streamVars>>

\* completedChunksCount >= totalChunks: the record is removed, success
FinishByCount ==
  /\ Settled
  /\ Rejected = {}
  /\ Cardinality(up.completedChunks) >= TotalChunks
  /\ ledger' = RemoveItem(ledger)
  /\ up' = NoLedger
  /\ cpc' = "success"
  /\ UNCHANGED <<serverVars, histVars, startChunkIndex, remaining, bi, task, chk, run>>
  /\ UNCHANGED <<batchVars, scanVars, dirVars, nameVars, sliceVars, waitVars, resumeVars, targetVars, streamVars>>

\* i += CONCURRENT_CHUNKS: the next batch is sent
NextBatch ==
  /\ Settled
  /\ Rejected = {}
  /\ Cardinality(up.completedChunks) < TotalChunks
  /\ bi + CONCURRENT_CHUNKS < Len(remaining)
  /\ bi' = bi + CONCURRENT_CHUNKS
  /\ task' = [i \in Chunks |-> IF i \in ChunkBatch(remaining, bi') THEN NewTask ELSE task[i]]
  /\ run' = [run EXCEPT !.sent = @ \cup ChunkBatch(remaining, bi')]
  /\ UNCHANGED <<serverVars, histVars, ledger, up, cpc, startChunkIndex, remaining, chk>>
  /\ UNCHANGED <<batchVars, scanVars, dirVars, nameVars, sliceVars, waitVars, resumeVars, targetVars, streamVars>>

\* the batch loop ends: "all chunks were uploaded", the record is removed
FinishByLoopEnd ==
  /\ Settled
  /\ Rejected = {}
  /\ Cardinality(up.completedChunks) < TotalChunks
  /\ bi + CONCURRENT_CHUNKS >= Len(remaining)
  /\ ledger' = RemoveItem(ledger)
  /\ up' = NoLedger
  /\ cpc' = "success"
  /\ UNCHANGED <<serverVars, histVars, startChunkIndex, remaining, bi, task, chk, run>>
  /\ UNCHANGED <<batchVars, scanVars, dirVars, nameVars, sliceVars, waitVars, resumeVars, targetVars, streamVars>>

\* the page is reloaded: the run and its requests are abandoned, the server
\* goes on with the requests it has
Reload ==
  /\ cpc \in {"checking", "uploading"}
  /\ run.n < MaxRuns
  /\ cpc' = "idle"
  /\ up' = NoLedger
  /\ task' = [i \in Chunks |-> NoTask]
  /\ chk' = NoCheck
  /\ handlers' = [h \in HIds |-> IF handlers[h].owner = "task"
                                   THEN [handlers[h] EXCEPT !.owner = "orphan"] ELSE handlers[h]]
  /\ UNCHANGED <<slots, tempDir, finalFile, histVars, ledger, startChunkIndex, remaining, bi, run>>
  /\ UNCHANGED <<batchVars, scanVars, dirVars, nameVars, sliceVars, waitVars, resumeVars, targetVars, streamVars>>

\* the reply to an abandoned request is discarded
DropReply(h) ==
  /\ handlers[h].pc = "replied"
  /\ handlers[h].owner = "orphan"
  /\ handlers' = [handlers EXCEPT ![h] = FreeHandler]
  /\ UNCHANGED <<slots, tempDir, finalFile, histVars, clientVars>>
  /\ UNCHANGED <<batchVars, scanVars, dirVars, nameVars, sliceVars, waitVars, resumeVars, targetVars, streamVars>>

Next ==
  \/ StartRun
  \/ ServeCheck
  \/ CheckDone
  \/ CheckFail
  \/ \E i \in Chunks, h \in HIds : Arrive(i, h)
  \/ \E i \in Chunks : LoseRequest(i)
  \/ \E i \in Chunks : LoseReply(i)
  \/ \E i \in Chunks : ChunkError(i)
  \/ \E i \in Chunks : ChunkOk(i)
  \/ \E i \in Chunks : Retry(i)
  \/ FailBatch
  \/ FinishByCount
  \/ NextBatch
  \/ FinishByLoopEnd
  \/ Reload
  \/ \E h \in HIds : DropReply(h)
  \/ ServerStep

Spec == Init /\ [][Next]_vars

\* every request is eventually answered, every timer fires and every
\* continuation of the client is run; the faults and the user are not forced
Progress ==
  /\ WF_vars(ServeCheck)
  /\ WF_vars(CheckDone)
  /\ WF_vars(\E i \in Chunks, h \in HIds : Arrive(i, h))
  /\ WF_vars(\E i \in Chunks : ChunkError(i))
  /\ WF_vars(\E i \in Chunks : ChunkOk(i))
  /\ WF_vars(\E i \in Chunks : Retry(i))
  /\ WF_vars(FailBatch)
  /\ WF_vars(FinishByCount)
  /\ WF_vars(NextBatch)
  /\ WF_vars(FinishByLoopEnd)
  /\ WF_vars(\E h \in HIds : DropReply(h))
  /\ WF_vars(ServerStep)

LiveSpec == Spec /\ Progress

\* --------------------------------------------------- uploadMultipleFiles
uploadVars == <<slots, tempDir, finalFile, handlers, delivered, overlapped, outOfOrder, reassembled,
                ledger, up, cpc, startChunkIndex, remaining, bi, task, chk, run>>

FileIds == 1 .. MaxFiles

\* the sizes a file of the batch may have: below, at and above the threshold
Sizes == {LARGE_FILE_THRESHOLD - 1, LARGE_FILE_THRESHOLD, LARGE_FILE_THRESHOLD + 1}

Batches == UNION {[1 .. n -> Sizes] : n \in 1 .. MaxFiles}

\* files.filter in order: the indices f of fs with P(fs[f])
RECURSIVE Select(_, _, _)
Select(fs, from, small) ==
  IF from > Len(fs) THEN << >>
  ELSE (IF (fs[from] < LARGE_FILE_THRESHOLD) = small THEN <<from>> ELSE << >>)
         \o Select(fs, from + 1, small)

\* uploadFile: if (file.size > LARGE_FILE_THRESHOLD) return await uploadFileChunked(...)
IsChunked(size) == size > LARGE_FILE_THRESHOLD

\* uploadFile is entered for the files whose upload has just started: the
\* chunked orchestrator or the single request to /api/upload
Routed(fs, st, rt) ==
  [f \in FileIds |-> IF st[f] = "inflight" /\ rt[f] = "none"
                       THEN (IF IsChunked(fs[f]) THEN "chunked" ELSE "single")
                       ELSE rt[f]]

\* variant: smallFiles.slice(i), the whole rest at once
SmallBatchAll(sm, i) == {sm[j] : j \in (i + 1) .. Len(sm)}

\* smallFiles.slice(i, i + SMALL_FILE_CONCURRENCY)
SmallBatch(sm, i) == {sm[j] : j \in (i + 1) .. Min(i + SMALL_FILE_CONCURRENCY, Len(sm))}

\* the calls of uploadFile a phase starts: the batch of small files from i,
\* or the large file i, or the refresh when both loops are over
EnterPhase(sm, lg, phase, i, st) ==
  IF phase = "small" /\ i < Len(sm)
    THEN /\ bpc' = "small"
         /\ fidx' = i
         /\ fstat' = [f \in FileIds |-> IF f \in SmallBatch(sm, i) THEN "inflight" ELSE st[f]]
    ELSE LET j == IF phase = "small" THEN 0 ELSE i IN
         IF j < Len(lg)
           THEN /\ bpc' = "large"
                /\ fidx' = j
                /\ fstat' = [st EXCEPT ![lg[j + 1]] = "inflight"]
           ELSE /\ bpc' = "refresh"
                /\ fidx' = j
                /\ fstat' = st

\* uploadMultipleFiles(files): the files are split by size and the first
\* uploads are started
UploadMultipleFiles(fs) ==
  /\ bpc = "idle"
  /\ files' = fs
  /\ smallFiles' = Select(fs, 1, TRUE)
  /\ largeFiles' = Select(fs, 1, FALSE)
  /\ successCount' = 0
  /\ failedFiles' = << >>
  /\ totalProcessed' = 0
  /\ EnterPhase(smallFiles', largeFiles', "small", 0, fstat)
  /\ route' = Routed(fs, fstat', route)
  /\ UNCHANGED <<uploadVars, scanVars, dirVars, nameVars, sliceVars, waitVars, resumeVars, targetVars, streamVars>>

\* the single-request upload of a small file of the batch ends: uploadFile
\* returns { success: true } or, from its catch, { success: false, error }
SmallUploadEnds(f, ok) ==
  /\ bpc = "small"
  /\ fstat[f] = "inflight"
  /\ fstat' = [fstat EXCEPT ![f] = IF ok THEN "ok" ELSE "fail"]
  /\ UNCHANGED <<files, smallFiles, largeFiles, bpc, fidx, successCount, failedFiles, totalProcessed, route>>
  /\ UNCHANGED <<uploadVars, scanVars, dirVars, nameVars, sliceVars, waitVars, resumeVars, targetVars, streamVars>>

\* results.forEach: the files of the batch that are not fulfilled with success, in order
RECURSIVE FailedOf(_, _, _, _)
FailedOf(sm, from, to, st) ==
  IF from > to THEN << >>
  ELSE (IF st[sm[from]] = "ok" THEN << >> ELSE <<sm[from]>>) \o FailedOf(sm, from + 1, to, st)

\* Promise.allSettled(batchPromises) resolves: the results are counted and
\* the next batch, or the next phase, starts
SmallBatchSettled ==
  /\ bpc = "small"
  /\ \A f \in SmallBatch(smallFiles, fidx) : fstat[f] # "inflight"
  /\ LET to == Min(fidx + SMALL_FILE_CONCURRENCY, Len(smallFiles))
         failed == FailedOf(smallFiles, fidx + 1, to, fstat)
     IN /\ totalProcessed' = totalProcessed + (to - fidx)
        /\ successCount' = successCount + (to - fidx) - Len(failed)
        /\ failedFiles' = failedFiles \o failed
  /\ EnterPhase(smallFiles, largeFiles, "small", fidx + SMALL_FILE_CONCURRENCY, fstat)
  /\ route' = Routed(files, fstat', route)
  /\ UNCHANGED <<files, smallFiles, largeFiles>>
  /\ UNCHANGED <<uploadVars, scanVars, dirVars, nameVars, sliceVars, waitVars, resumeVars, targetVars, streamVars>>

\* await uploadFile(file) of a large file returns a result: it is counted and
\* the next large file starts
LargeUploadReturns(ok) ==
  /\ bpc = "large"
  /\ LET f == largeFiles[fidx + 1] IN
       /\ fstat[f] = "inflight"
       /\ ok \/ ~IsChunked(files[f])
       /\ totalProcessed' = totalProcessed + 1
       /\ successCount' = IF ok THEN successCount + 1 ELSE successCount
       /\ failedFiles' = IF ok THEN failedFiles ELSE Append(failedFiles, f)
       /\ EnterPhase(smallFiles, largeFiles, "large", fidx + 1,
                     [fstat EXCEPT ![f] = IF ok THEN "ok" ELSE "fail"])
       /\ route' = Routed(files, fstat', route)
  /\ UNCHANGED <<files, smallFiles, largeFiles>>
  /\ UNCHANGED <<uploadVars, scanVars, dirVars, nameVars, sliceVars, waitVars, resumeVars, targetVars, streamVars>>

\* uploadFileChunked throws out of uploadFile and out of the loop of the
\* large files: the catch of uploadMultipleFiles shows "Upload Failed"
LargeUploadThrows ==
  /\ bpc = "large"
  /\ LET f == largeFiles[fidx + 1] IN
       /\ fstat[f] = "inflight"
       /\ IsChunked(files[f])
       /\ fstat' = [fstat EXCEPT ![f] = "threw"]
  /\ bpc' = "aborted"
  /\ UNCHANGED <<files, smallFiles, largeFiles, fidx, successCount, failedFiles, totalProcessed, route>>
  /\ UNCHANGED <<uploadVars, scanVars, dirVars, nameVars, sliceVars, waitVars, resumeVars, targetVars, streamVars>>

\* await loadFiles(currentPath) and the final toast
BatchRefresh ==
  /\ bpc = "refresh"
  /\ bpc' = "done"
  /\ UNCHANGED <<files, smallFiles, largeFiles, fidx, fstat, successCount, failedFiles, totalProcessed, route>>
  /\ UNCHANGED <<uploadVars, scanVars, dirVars, nameVars, sliceVars, waitVars, resumeVars, targetVars, streamVars>>

BatchNext ==
  \/ \E fs \in Batches : UploadMultipleFiles(fs)
  \/ \E f \in FileIds, ok \in BOOLEAN : SmallUploadEnds(f, ok)
  \/ SmallBatchSettled
  \/ \E ok \in BOOLEAN : LargeUploadReturns(ok)
  \/ LargeUploadThrows
  \/ BatchRefresh

BatchSpec == Init /\ [][BatchNext]_vars

\* --------------------------------------------------- checkPendingUploads
\* an entry of the storage: its key (prefixed: it starts with
\* 'upload_progress_') and, for a record, the size of completedChunks; the
\* records are of files of TotalChunks chunks
Entry(k, pre, c) == [key |-> k, prefixed |-> pre, completed |-> c]

EntryKinds == {<<FALSE, 0>>} \cup {<<TRUE, c>> : c \in 0 .. TotalChunks}

Storages ==
  UNION {{[k \in 1 .. n |-> Entry(k, kinds[k][1], kinds[k][2])] : kinds \in [1 .. n -> EntryKinds]}
           : n \in 0 .. MaxRecords}

\* localStorage.removeItem(key): the later keys move one index down
RemoveAt(st, k) == [j \in 1 .. (Len(st) - 1) |-> IF j < k THEN st[j] ELSE st[j + 1]]

\* if (completedChunks < progress.totalChunks)
IsPending(e) == e.completed < TotalChunks

\* for (let i = 0; i < localStorage.length; i++) { const key = localStorage.key(i); ... }
\* from index i on: the storage and the pending list when the loop ends
RECURSIVE ScanFrom(_, _, _)
ScanFrom(st, i, pend) ==
  IF i >= Len(st) THEN [storage |-> st, pending |-> pend]
  ELSE LET e == st[i + 1] IN
       IF ~e.prefixed THEN ScanFrom(st, i + 1, pend)
       ELSE IF IsPending(e) THEN ScanFrom(st, i + 1, Append(pend, e.key))
       ELSE ScanFrom(RemoveAt(st, i + 1), i + 1, pend)

\* the storage as earlier sessions and other pages of the origin left it
OpenPage(st) ==
  /\ spc = "closed"
  /\ localStorage' = st
  /\ spc' = "loaded"
  /\ UNCHANGED <<scanned, pendingUploads>>
  /\ UNCHANGED <<uploadVars, batchVars, dirVars, nameVars, sliceVars, waitVars, resumeVars, targetVars, streamVars>>

\* useEffect(() => { checkPendingUploads() }, [])
CheckPendingUploads ==
  /\ spc = "loaded"
  /\ LET r == ScanFrom(localStorage, 0, << >>) IN
       /\ localStorage' = r.storage
       /\ pendingUploads' = r.pending
  /\ scanned' = localStorage
  /\ spc' = "shown"
  /\ UNCHANGED <<uploadVars, batchVars, dirVars, nameVars, sliceVars, waitVars, resumeVars, targetVars, streamVars>>

\* clearPendingUpload(key): removeItem, then the scan again
ClearPendingUpload(k) ==
  /\ spc = "shown"
  /\ \E j \in 1 .. Len(pendingUploads) : pendingUploads[j] = k
  /\ LET at == CHOOSE j \in 1 .. Len(localStorage) : localStorage[j].key = k
         st == RemoveAt(localStorage, at)
         r == ScanFrom(st, 0, << >>)
     IN /\ scanned' = st
        /\ localStorage' = r.storage
        /\ pendingUploads' = r.pending
  /\ UNCHANGED spc
  /\ UNCHANGED <<uploadVars, batchVars, dirVars, nameVars, sliceVars, waitVars, resumeVars, targetVars, streamVars>>

ScanNext ==
  \/ \E st \in Storages : OpenPage(st)
  \/ CheckPendingUploads
  \/ \E k \in 1 .. MaxRecords : ClearPendingUpload(k)

ScanSpec == Init /\ [][ScanNext]_vars

\* ------------------------------------------------------ sanitizeFilename
\* a name is a sequence of characters
Letters == {"a", "b", "p", "r", "t"}
DigitChars == {"0", "1", "2", "3", "4", "5", "6", "7", "8", "9"}

\* \s
IsSpace(c) == c = " "

\* the class [\w\-_.] of the characters that are not removed
IsKept(c) == c \in Letters \cup DigitChars \cup {"_", "-", "."}

\* .replace(/\s+/g, '-')
RECURSIVE ReplaceSpaces(_)
ReplaceSpaces(n) ==
  IF n = << >> THEN << >>
  ELSE IF IsSpace(Head(n))
    THEN (IF Len(n) > 1 /\ IsSpace(n[2]) THEN << >> ELSE <<"-">>) \o ReplaceSpaces(Tail(n))
    ELSE <<Head(n)>> \o ReplaceSpaces(Tail(n))

\* .replace(/[^\w\-_.]/g, '')
RemoveSpecial(n) == SelectSeq(n, IsKept)

\* .replace(/--+/g, '-')
RECURSIVE CollapseHyphens(_)
CollapseHyphens(n) ==
  IF n = << >> THEN << >>
  ELSE IF Head(n) = "-" /\ Len(n) > 1 /\ n[2] = "-" THEN CollapseHyphens(Tail(n))
  ELSE <<Head(n)>> \o CollapseHyphens(Tail(n))

\* .replace(/^-+|-+$/g, '')
RECURSIVE TrimHyphens(_)
TrimHyphens(n) ==
  IF n = << >> THEN << >>
  ELSE IF Head(n) = "-" THEN TrimHyphens(Tail(n))
  ELSE IF n[Len(n)] = "-" THEN TrimHyphens(SubSeq(n, 1, Len(n) - 1))
  ELSE n

sanitizeFilename(n) == TrimHyphens(CollapseHyphens(RemoveSpecial(ReplaceSpaces(n))))

\* the characters the names given are made of: a letter, a digit, the dot,
\* the space, the hyphen and a character outside the kept class
NameChars == {"a", "1", ".", " ", "-", "#"}

\* the names a request can carry: !filename rejects the empty one
Names == UNION {[1 .. n -> NameChars] : n \in 1 .. MaxNameLen}

\* the server derives the storage key of a name, and of that key again
Sanitize(n) ==
  /\ filename = << >>
  /\ filename' = n
  /\ sanitized' = sanitizeFilename(n)
  /\ resanitized' = sanitizeFilename(sanitized')
  /\ UNCHANGED <<uploadVars, batchVars, scanVars, dirVars, sliceVars, waitVars, resumeVars, targetVars, streamVars>>

SanitizeNext == \E n \in Names : Sanitize(n)

SanitizeSpec == Init /\ [][SanitizeNext]_vars

\* ------------------------------- the chunk directory of one target path
\* the file names the clients upload to the directory: "a", "a b", "a-b" and
\* "a.part1"
DirNames == {<<"a">>, <<"a", " ", "b">>, <<"a", "-", "b">>,
             <<"a", ".", "p", "a", "r", "t", "1">>}

DirChunks == 0 .. (DirTotalChunks - 1)

StartsWith(f, pre) == Len(f) >= Len(pre) /\ SubSeq(f, 1, Len(pre)) = pre

\* `${chunkIndex}` of an index below 10
DigitOf(i) == <<"0", "1", "2", "3", "4", "5", "6", "7", "8", "9">>[i + 1]

\* `${sanitizedFilename}.part`
PartPrefix(key) == key \o <<".", "p", "a", "r", "t">>

\* path.join(tempDir, `${sanitizedFilename}.part${chunkIndex}`)
SlotName(key, i) == PartPrefix(key) \o <<DigitOf(i)>>

\* parseInt of a string of digits
RECURSIVE ParseInt(_)
ParseInt(d) ==
  IF d = << >> THEN 0
  ELSE 10 * ParseInt(SubSeq(d, 1, Len(d) - 1))
       + (CHOOSE v \in 0 .. 9 : DigitOf(v) = d[Len(d)])

\* variant: parseInt of what follows the prefix, without the pattern
MatchIndexByPrefix(f, key) ==
  IF StartsWith(f, PartPrefix(key)) /\ Len(f) > Len(key) + 5 /\ f[Len(key) + 6] \in DigitChars
    THEN ParseInt(<<f[Len(key) + 6]>>)
    ELSE -1

\* chunkFile.match(new RegExp(`^${escaped}\\.part(\\d+)$`)): the index, or -1
MatchIndex(f, key) ==
  IF /\ StartsWith(f, PartPrefix(key))
     /\ Len(f) > Len(key) + 5
     /\ \A j \in (Len(key) + 6) .. Len(f) : f[j] \in DigitChars
    THEN ParseInt(SubSeq(f, Len(key) + 6, Len(f)))
    ELSE -1

\* upload-chunk: const sanitizedFilename = sanitizeFilename(filename)
UploadKey(n) == sanitizeFilename(n)

\* variant: the key of check-chunks is the name as received
CheckKeyRaw(n) == n

\* check-chunks: const sanitizedFilename = sanitizeFilename(filename)
CheckKey(n) == sanitizeFilename(n)

\* uploadedChunks.filter(chunk => chunk.startsWith(`${sanitizedFilename}.part`))
FileChunksOf(dir, key) == {f \in dir : StartsWith(f, PartPrefix(key))}

\* the reassembly loop from index j on: the slots left and whether a
\* readFile failed
RECURSIVE Reassemble(_, _, _)
Reassemble(dir, key, j) ==
  IF j >= DirTotalChunks THEN [dir |-> dir, ok |-> TRUE]
  ELSE IF SlotName(key, j) \notin dir THEN [dir |-> dir, ok |-> FALSE]
  ELSE Reassemble(dir \ {SlotName(key, j)}, key, j + 1)

\* variant: fs.remove(tempDir), the directory goes with what it holds
RmdirForce(dir) == TRUE

\* await fs.rmdir(tempDir): succeeds only on an empty directory
Rmdir(dir) == dir = {}

\* app.post('/api/upload-chunk') for name n and index i, from the request to
\* the response
UploadChunk(n, i) ==
  /\ uploads < MaxUploads
  /\ uploads' = uploads + 1
  /\ LET key == UploadKey(n)
         file == SlotName(key, i)
         dir1 == chunkDir \cup {file}
         was == written \cup {[name |-> n, idx |-> i, file |-> file]}
         counted == Cardinality(FileChunksOf(dir1, key))
         r == Reassemble(dir1, key, 0)
     IN IF counted = DirTotalChunks
          THEN /\ chunkDir' = r.dir
               /\ finalPaths' = finalPaths \cup {[name |-> n, path |-> key]}
               /\ chunkDirExists' = ~(r.ok /\ Rmdir(r.dir))
               /\ written' = {x \in was : x.file \in r.dir}
               /\ reply' = [name |-> n, idx |-> i, counted |-> counted,
                            res |-> IF r.ok THEN "complete" ELSE "error"]
          ELSE /\ chunkDir' = dir1
               /\ chunkDirExists' = TRUE
               /\ written' = was
               /\ reply' = [name |-> n, idx |-> i, counted |-> counted, res |-> "partial"]
               /\ UNCHANGED finalPaths
  /\ UNCHANGED query
  /\ UNCHANGED <<uploadVars, batchVars, scanVars, nameVars, sliceVars, waitVars, resumeVars, targetVars, streamVars>>

\* variant: fs.ensureDirSync(tempDir) as in upload-chunk
EnsureDir(exists) == [found |-> TRUE, after |-> TRUE]

\* await fs.pathExists(tempDir): what it answers and what it leaves
PathExists(exists) == [found |-> exists, after |-> exists]

\* app.get('/api/check-chunks') for name n up to the answer of pathExists;
\* without the directory the response is sent at once
CheckExists(n) ==
  /\ query.pc = "none"
  /\ LET r == PathExists(chunkDirExists) IN
       /\ chunkDirExists' = r.after
       /\ query' = [NoQuery EXCEPT !.pc = IF r.found THEN "readdir" ELSE "ok",
                                   !.name = n, !.existed = r.found]
  /\ UNCHANGED <<chunkDir, finalPaths, reply, uploads, written>>
  /\ UNCHANGED <<uploadVars, batchVars, scanVars, nameVars, sliceVars, waitVars, resumeVars, targetVars, streamVars>>

\* the orders in which readdir may list the files of S
Orders(S) == {o \in [1 .. Cardinality(S) -> S] : \A a, b \in 1 .. Cardinality(S) : a # b => o[a] # o[b]}

\* fileChunks.forEach: the indices of the names that match, in listing order
RECURSIVE Indices(_, _)
Indices(o, key) ==
  IF o = << >> THEN << >>
  ELSE (IF MatchIndex(Head(o), key) >= 0 THEN <<MatchIndex(Head(o), key)>> ELSE << >>)
       \o Indices(Tail(o), key)

RECURSIVE Insert(_, _)
Insert(x, sq) ==
  IF sq = << >> THEN <<x>>
  ELSE IF x <= Head(sq) THEN <<x>> \o sq
  ELSE <<Head(sq)>> \o Insert(x, Tail(sq))

\* existingChunks.sort((a, b) => a - b)
RECURSIVE SortAsc(_)
SortAsc(sq) == IF sq = << >> THEN << >> ELSE Insert(Head(sq), SortAsc(Tail(sq)))

\* await fs.readdir(tempDir), the filter, the match and the response; readdir
\* of a directory that is gone throws and the response is 500
CheckReaddir ==
  /\ query.pc = "readdir"
  /\ IF chunkDirExists
       THEN \E o \in Orders(FileChunksOf(chunkDir, CheckKey(query.name))) :
              query' = [query EXCEPT !.pc = "ok", !.listing = chunkDir,
                                     !.existingChunks = SortAsc(Indices(o, CheckKey(query.name)))]
       ELSE query' = [query EXCEPT !.pc = "error"]
  /\ UNCHANGED <<chunkDir, chunkDirExists, finalPaths, reply, uploads, written>>
  /\ UNCHANGED <<uploadVars, batchVars, scanVars, nameVars, sliceVars, waitVars, resumeVars, targetVars, streamVars>>

\* the response reaches the client
CheckReplyTaken ==
  /\ query.pc \in {"ok", "error"}
  /\ query' = NoQuery
  /\ UNCHANGED <<chunkDir, chunkDirExists, finalPaths, reply, uploads, written>>
  /\ UNCHANGED <<uploadVars, batchVars, scanVars, nameVars, sliceVars, waitVars, resumeVars, targetVars, streamVars>>

DirNext ==
  \/ \E n \in DirNames, i \in DirChunks : UploadChunk(n, i)
  \/ \E n \in DirNames : CheckExists(n)
  \/ CheckReaddir
  \/ CheckReplyTaken

DirSpec == Init /\ [][DirNext]_vars

\* ------------------------------------------------- slicing a file
\* variant: the quotient rounded down
TotalChunksFloor(S, C) == S \div C

\* Math.ceil(file.size / CHUNK_SIZE)
TotalChunksOf(S, C) == (S + C - 1) \div C

\* const start = chunkIndex * CHUNK_SIZE
SliceStart(i, C) == i * C

\* const end = Math.min(start + CHUNK_SIZE, file.size)
SliceEnd(i, C, S) == Min(SliceStart(i, C) + C, S)

\* file.slice(start, end): the byte offsets of the blob; a Blob clamps both
\* ends to its size
FileSlice(start, end, S) ==
  LET a == IF start <= S THEN start ELSE S
      b == IF end <= S THEN end ELSE S
  IN [k \in 1 .. (IF b > a THEN b - a ELSE 0) |-> a + k - 1]

\* uploadFileChunked is called for a file of S bytes, with chunks of C bytes
StartSlicing(S, C) ==
  /\ fileSize = 0
  /\ fileSize' = S
  /\ chunkSize' = C
  /\ sliceIdx' = 0
  /\ sliced' = << >>
  /\ UNCHANGED <<uploadVars, batchVars, scanVars, dirVars, nameVars, waitVars, resumeVars, targetVars, streamVars>>

\* the chunk of the next index is cut
SliceChunk ==
  /\ fileSize > 0
  /\ sliceIdx < TotalChunksOf(fileSize, chunkSize)
  /\ sliced' = Append(sliced, FileSlice(SliceStart(sliceIdx, chunkSize),
                                        SliceEnd(sliceIdx, chunkSize, fileSize), fileSize))
  /\ sliceIdx' = sliceIdx + 1
  /\ UNCHANGED <<fileSize, chunkSize>>
  /\ UNCHANGED <<uploadVars, batchVars, scanVars, dirVars, nameVars, waitVars, resumeVars, targetVars, streamVars>>

SliceNext ==
  \/ \E S \in 1 .. MaxSliceSize, C \in 1 .. MaxSliceChunk : StartSlicing(S, C)
  \/ SliceChunk

SliceSpec == Init /\ [][SliceNext]_vars

RECURSIVE Concat(_)
Concat(sq) == IF sq = << >> THEN << >> ELSE Head(sq) \o Concat(Tail(sq))

\* ------------------------------------------------- the wait before a retry
BASE_RETRY_DELAY == 1000
MAX_RETRY_DELAY == 30000

RECURSIVE Pow2(_)
Pow2(n) == IF n = 0 THEN 1 ELSE 2 * Pow2(n - 1)

\* variant: the exponent is the number of the attempt
BaseDelayDoubled(a) == Min(BASE_RETRY_DELAY * Pow2(a), MAX_RETRY_DELAY)

\* Math.min(BASE_RETRY_DELAY * Math.pow(2, retryAttempt - 1), MAX_RETRY_DELAY)
BaseDelay(a) == Min(BASE_RETRY_DELAY * Pow2(a - 1), MAX_RETRY_DELAY)

\* Math.random() * 0.3 * baseDelay, with Math.random() = r / RandomSteps
Jitter(r, base) == (r * 3 * base) \div (10 * RandomSteps)

\* catch (error) of an attempt: retryAttempt++ and, within the budget, the wait
\* before the next attempt
AttemptFails(r) ==
  /\ CanRetry(waitAttempt + 1)
  /\ waitAttempt' = waitAttempt + 1
  /\ baseDelay' = BaseDelay(waitAttempt')
  /\ delay' = baseDelay' + Jitter(r, baseDelay')
  /\ UNCHANGED <<uploadVars, batchVars, scanVars, dirVars, nameVars, sliceVars, resumeVars, targetVars, streamVars>>

WaitNext == \E r \in 0 .. (RandomSteps - 1) : AttemptFails(r)

WaitSpec == Init /\ [][WaitNext]_vars

\* ------------------------- resuming next to another file of the same name
OtherTotalChunks == TotalChunksOf(OtherFileSize, CHUNK_SIZE)

\* upload-chunk, handled alone, on the indices of the slots of the name: the
\* slot is written, the slots are counted and, with total of them, the loop
\* consumes part0, part1, ... until a slot is missing
RECURSIVE Consume(_, _, _)
Consume(S, j, total) ==
  IF j >= total \/ j \notin S THEN S ELSE Consume(S \ {j}, j + 1, total)

ServerStore(S, i, total) ==
  IF Cardinality(S \cup {i}) = total THEN Consume(S \cup {i}, 0, total) ELSE S \cup {i}

\* a chunk of the other file, which has OtherTotalChunks chunks, is stored
OtherFileChunk(i) ==
  /\ recRuns = 0
  /\ named' = ServerStore(named, i, OtherTotalChunks)
  /\ UNCHANGED <<rec, recRuns>>
  /\ UNCHANGED <<uploadVars, batchVars, scanVars, dirVars, nameVars, sliceVars, waitVars, targetVars, streamVars>>

\* a run of the file starts: the record is loaded or initialised and saved;
\* with startChunkIndex > 0 the server is asked and what it reports is merged
\* into the record, which is saved again
RunStarts ==
  /\ recRuns < MaxResumeRuns
  /\ recRuns' = recRuns + 1
  /\ LET u == IF rec = NoLedger THEN [completedChunks |-> {}, lastError |-> FALSE] ELSE rec
     IN rec' = IF ResumeIndex(u.completedChunks) > 0
                 THEN Persist(u, [u EXCEPT !.completedChunks = @ \cup named])
                 ELSE Persist(rec, u)
  /\ UNCHANGED named
  /\ UNCHANGED <<uploadVars, batchVars, scanVars, dirVars, nameVars, sliceVars, waitVars, targetVars, streamVars>>

\* a chunk of the run is stored by the server and marked in the record
ChunkAcknowledged(i) ==
  /\ recRuns > 0
  /\ rec # NoLedger
  /\ i \notin rec.completedChunks
  /\ named' = ServerStore(named, i, TotalChunks)
  /\ rec' = Persist(rec, MarkCompleted(rec, i))
  /\ UNCHANGED recRuns
  /\ UNCHANGED <<uploadVars, batchVars, scanVars, dirVars, nameVars, sliceVars, waitVars, targetVars, streamVars>>

\* the run ends in success: localStorage.removeItem(progressKey)
RunSucceeds ==
  /\ recRuns > 0
  /\ rec # NoLedger
  /\ Cardinality(rec.completedChunks) >= TotalChunks
  /\ rec' = RemoveItem(rec)
  /\ UNCHANGED <<named, recRuns>>
  /\ UNCHANGED <<uploadVars, batchVars, scanVars, dirVars, nameVars, sliceVars, waitVars, targetVars, streamVars>>

ResumeNext ==
  \/ \E i \in 0 .. (OtherTotalChunks - 1) : OtherFileChunk(i)
  \/ RunStarts
  \/ \E i \in Chunks : ChunkAcknowledged(i)
  \/ RunSucceeds

ResumeSpec == Init /\ [][ResumeNext]_vars

\* ------------------------------ the same file sent to two target directories
\* the values of path: the uploads root and a folder in it
Dirs == {"/", "/b"}

SeqToSet(sq) == {sq[j] : j \in 1 .. Len(sq)}

\* uploadFileChunked(file, path) starts: the record under
\* upload_progress_<name>-<size>-<lastModified> is loaded or initialised and
\* saved; with startChunkIndex > 0 check-chunks is asked for the directory and
\* its answer merged; the remaining chunks are computed
RunStartsIn(d) ==
  /\ target = "none"
  /\ targetRuns < MaxTargetRuns
  /\ targetRuns' = targetRuns + 1
  /\ target' = d
  /\ heldAtStart' = dirSlots[d]
  /\ progressDir' = IF progress = NoLedger THEN d ELSE progressDir
  /\ LET u == IF progress = NoLedger THEN [completedChunks |-> {}, lastError |-> FALSE] ELSE progress
         start == ResumeIndex(u.completedChunks)
         v == IF start > 0 THEN [u EXCEPT !.completedChunks = @ \cup dirSlots[d]] ELSE u
         rem == SeqToSet(RemainingChunks(Max(start, ResumeIndex(v.completedChunks)), v.completedChunks))
     IN /\ progress' = Persist(progress, v)
        /\ unsent' = rem
        /\ skipped' = Chunks \ rem
  /\ UNCHANGED dirSlots
  /\ UNCHANGED <<uploadVars, batchVars, scanVars, dirVars, nameVars, sliceVars, waitVars, resumeVars, streamVars>>

\* a chunk of the run is stored in the directory of the run and marked in the
\* record
TargetChunkStored(i) ==
  /\ target # "none"
  /\ i \in unsent
  /\ dirSlots' = [dirSlots EXCEPT ![target] = ServerStore(@, i, TotalChunks)]
  /\ progress' = Persist(progress, MarkCompleted(progress, i))
  /\ unsent' = unsent \ {i}
  /\ UNCHANGED <<progressDir, target, skipped, heldAtStart, targetRuns>>
  /\ UNCHANGED <<uploadVars, batchVars, scanVars, dirVars, nameVars, sliceVars, waitVars, resumeVars, streamVars>>

\* every remaining chunk is acknowledged: the record is removed, success
TargetRunSucceeds ==
  /\ target # "none"
  /\ unsent = {}
  /\ progress' = RemoveItem(progress)
  /\ target' = "none"
  /\ UNCHANGED <<dirSlots, progressDir, unsent, skipped, heldAtStart, targetRuns>>
  /\ UNCHANGED <<uploadVars, batchVars, scanVars, dirVars, nameVars, sliceVars, waitVars, resumeVars, streamVars>>

\* the page is reloaded while the run is under way: the record stays
TargetRunAbandoned ==
  /\ target # "none"
  /\ unsent # {}
  /\ target' = "none"
  /\ UNCHANGED <<dirSlots, progress, progressDir, unsent, skipped, heldAtStart, targetRuns>>
  /\ UNCHANGED <<uploadVars, batchVars, scanVars, dirVars, nameVars, sliceVars, waitVars, resumeVars, streamVars>>

TargetNext ==
  \/ \E d \in Dirs : RunStartsIn(d)
  \/ \E i \in Chunks : TargetChunkStored(i)
  \/ TargetRunSucceeds
  \/ TargetRunAbandoned

TargetSpec == Init /\ [][TargetNext]_vars

\* ------------------------------------- the write stream of the final file
\* the request has counted totalChunks slots: fs.createWriteStream(finalPath)
OpenStream ==
  /\ wpc = "idle"
  /\ wpc' = "loop"
  /\ wk' = 0
  /\ queued' = << >>
  /\ onDisk' = << >>
  /\ UNCHANGED <<statSize, seen>>
  /\ UNCHANGED <<uploadVars, batchVars, scanVars, dirVars, nameVars, sliceVars, waitVars, resumeVars, targetVars>>

\* one pass of the loop: readFile, writeStream.write(chunkData), unlink; after
\* the last pass writeStream.end() is called and not waited for
StreamWrite ==
  /\ wpc = "loop"
  /\ queued' = queued \o ChunkBytes(wk)
  /\ wk' = wk + 1
  /\ wpc' = IF wk + 1 < TotalChunks THEN "loop" ELSE "rmdir"
  /\ UNCHANGED <<onDisk, statSize, seen>>
  /\ UNCHANGED <<uploadVars, batchVars, scanVars, dirVars, nameVars, sliceVars, waitVars, resumeVars, targetVars>>

\* the stream writes in the background: the next byte reaches the file
Flush ==
  /\ queued # << >>
  /\ onDisk' = Append(onDisk, Head(queued))
  /\ queued' = Tail(queued)
  /\ UNCHANGED <<wpc, wk, statSize, seen>>
  /\ UNCHANGED <<uploadVars, batchVars, scanVars, dirVars, nameVars, sliceVars, waitVars, resumeVars, targetVars>>

\* try { await fs.rmdir(tempDir) } catch (e) {}
StreamRmdir ==
  /\ wpc = "rmdir"
  /\ wpc' = "stat"
  /\ UNCHANGED <<wk, queued, onDisk, statSize, seen>>
  /\ UNCHANGED <<uploadVars, batchVars, scanVars, dirVars, nameVars, sliceVars, waitVars, resumeVars, targetVars>>

\* const stats = await fs.stat(finalPath)
StreamStat ==
  /\ wpc = "stat"
  /\ statSize' = Len(onDisk)
  /\ wpc' = "reply"
  /\ UNCHANGED <<wk, queued, onDisk, seen>>
  /\ UNCHANGED <<uploadVars, batchVars, scanVars, dirVars, nameVars, sliceVars, waitVars, resumeVars, targetVars>>

\* res.json({ file: { size: stats.size, ... }, chunked: true }); a reader opens
\* the final file as the response is sent
StreamReply ==
  /\ wpc = "reply"
  /\ wpc' = "replied"
  /\ seen' = onDisk
  /\ UNCHANGED <<wk, queued, onDisk, statSize>>
  /\ UNCHANGED <<uploadVars, batchVars, scanVars, dirVars, nameVars, sliceVars, waitVars, resumeVars, targetVars>>

StreamNext ==
  \/ OpenStream
  \/ StreamWrite
  \/ Flush
  \/ StreamRmdir
  \/ StreamStat
  \/ StreamReply

StreamSpec == Init /\ [][StreamNext]_vars

\* ------------------------------------------------------------ properties
InReassembly(h) == handlers[h].pc \in {"read", "unlink", "rmdir", "stat"}
Reassembled(h) == InReassembly(h) \/ (handlers[h].pc = "replied" /\ handlers[h].res = "complete")
Quiet == \A h \in HIds : ~Busy(h)
Started == cpc \in {"uploading", "success", "failed"}

\* C1: when requests are handled one after the other, in any order of the
\* indices and with duplicates, a request reassembles if and only if its own
\* write made the stored slots cover all TotalChunks indices.
C1_ReassemblyTrigger ==
  ~overlapped =>
    \A h \in HIds :
      /\ Reassembled(h) => handlers[h].last
      /\ (handlers[h].pc = "replied" /\ handlers[h].res = "partial") => ~handlers[h].last

C1_Witness ==
  /\ ~overlapped
  /\ outOfOrder
  /\ \E i \in Chunks : delivered[i] > 1
  /\ \E h \in HIds : handlers[h].pc = "replied" /\ handlers[h].res = "complete" /\ handlers[h].last

\* C2: at most one upload-chunk request is in the reassembly loop at a time.
C2_SingleReassembly == Cardinality({h \in HIds : InReassembly(h)}) <= 1

\* C3: when every chunk 0..TotalChunks-1 has arrived once, in any order, and
\* the requests were handled one after the other, the final file is the
\* concatenation of the chunks in index order, i.e. the source file.
C3_OrderIndependent ==
  (~overlapped /\ Quiet /\ \A i \in Chunks : delivered[i] = 1) => finalFile = FileBytes

C3_Witness ==
  /\ ~overlapped
  /\ Quiet
  /\ outOfOrder
  /\ \A i \in Chunks : delivered[i] = 1
  /\ finalFile = FileBytes

\* C4: a chunk delivered twice with the same bytes, the second time after the
\* first was fully handled, leaves the final file equal to the file of a
\* single delivery.
C4_DuplicateHarmless ==
  (~overlapped /\ Quiet /\ (\A i \in Chunks : delivered[i] >= 1) /\ (\E i \in Chunks : delivered[i] >= 2))
    => finalFile = FileBytes

C4_Witness ==
  /\ ~overlapped
  /\ Quiet
  /\ \A i \in Chunks : delivered[i] >= 1
  /\ \E i \in Chunks : delivered[i] = 2 /\ slots[i] = NoSlot
  /\ finalFile = FileBytes

\* C5: uploadFileChunked reports success only after a response carried the
\* complete signal (chunked: true).
C5_ServerDecidesCompletion == cpc = "success" => run.sawComplete

\* C6: a run that ends in success has sent exactly the indices outside its
\* reconciled completed set.
C6_SendsComplement == cpc = "success" => run.sent = Chunks \ run.K

\* C7: a run never sends an upload-chunk request for an index of its
\* reconciled completed set.
C7_NoResendOfCompleted == run.sent \cap run.K = {}

C7_Witness ==
  /\ cpc = "success"
  /\ run.K = 0 .. (TotalChunks - 2)
  /\ run.sent = {TotalChunks - 1}

\* C8: a run that starts while the server holds chunks has asked check-chunks
\* and sends none of the chunks the server held.
C8_QueriesEveryRun ==
  (Started /\ run.held # {}) => (run.queried /\ run.sent \cap run.held = {})

\* C9: a second run of the same file in which every request succeeds ends
\* with the complete file assembled on the server.
C9_ResumeCompletes ==
  (run.n >= 2 /\ cpc = "success" /\ run.clean) => finalFile = FileBytes

\* C10: a chunk is given up only after more than MAX_RETRIES failed attempts,
\* a chunk that succeeds after failures is marked completed in the saved
\* record, and the upload fails only when some chunk was given up.
C10_RetryWithinBudget ==
  /\ \A i \in Chunks : task[i].st = "rejected" => task[i].retryAttempt > MAX_RETRIES
  /\ \A i \in Chunks : (task[i].st = "done" /\ cpc = "uploading") =>
       (i \in up.completedChunks /\ i \in ledger.completedChunks)
  /\ cpc = "failed" => \E i \in Chunks : task[i].st = "rejected"

C10_Witness ==
  /\ cpc = "success"
  /\ run.sawComplete
  /\ \E i \in Chunks : task[i].st = "done" /\ task[i].retryAttempt = 3

\* C11: a chunk is given up after exactly MAX_RETRIES + 1 failed attempts and
\* is never attempted again; while it is given up the run is not a success,
\* the batch loop has not moved past its batch, and nothing outside the
\* batches started so far has been sent.
SentSoFar == {remaining[j] : j \in 1 .. Min(bi + CONCURRENT_CHUNKS, Len(remaining))}

C11_ExhaustedChunkFailsUpload ==
  /\ \A i \in Chunks : task[i].retryAttempt <= MAX_RETRIES + 1
  /\ \A i \in Chunks : task[i].st \in {"inflight", "backoff"} => task[i].retryAttempt <= MAX_RETRIES
  /\ \A i \in Chunks : task[i].st = "rejected" =>
       /\ task[i].retryAttempt = MAX_RETRIES + 1
       /\ cpc \in {"uploading", "failed"}
       /\ i \in ChunkBatch(remaining, bi)
       /\ run.sent \subseteq SentSoFar
       /\ \A j \in Chunks \ SentSoFar : task[j] = NoTask

C11_Witness ==
  /\ cpc = "failed"
  /\ \E i \in Chunks : task[i].st = "rejected" /\ task[i].retryAttempt = MAX_RETRIES + 1
  /\ \E j \in Chunks : j \notin run.K /\ j \notin run.sent /\ task[j] = NoTask

\* C12: after uploadFileChunked has failed the record of the upload is in the
\* storage, lists every chunk acknowledged before the failure and has
\* lastError set.
C12_FailureKeepsLedger ==
  cpc = "failed" =>
    /\ ledger # NoLedger
    /\ ledger.lastError
    /\ run.acked \subseteq ledger.completedChunks

C12_Witness ==
  /\ cpc = "failed"
  /\ ledger # NoLedger
  /\ ledger.lastError
  /\ run.acked # {}
  /\ run.acked \subseteq ledger.completedChunks

\* C13: in every step that keeps the record of the upload in the storage, the
\* chunk indices of its completedChunks stay in it.
C13_CompletedStays ==
  [][(ledger # NoLedger /\ ledger' # NoLedger) =>
       ledger.completedChunks \subseteq ledger'.completedChunks]_vars

C13_Witness ==
  /\ run.n = 2
  /\ cpc = "uploading"
  /\ run.K # {}
  /\ run.K \subseteq ledger.completedChunks
  /\ ledger.completedChunks # run.K

\* C14: the record in the storage lists exactly the indices acknowledged by
\* upload-chunk or reported by check-chunks since the record was created;
\* a task that has got its success response has its index in the record.
C14_PersistedAtOnce ==
  /\ ledger # NoLedger => ledger.completedChunks = run.acked
  /\ \A i \in Chunks : (task[i].st = "done" /\ cpc = "uploading") => i \in ledger.completedChunks

C14_Witness ==
  /\ cpc = "idle"
  /\ run.n = 1
  /\ ledger # NoLedger
  /\ Cardinality(run.acked) >= 2
  /\ ledger.completedChunks = run.acked

\* C15: when uploadFileChunked has returned success no record of the upload
\* is in the storage.
C15_SuccessClearsLedger == cpc = "success" => ledger = NoLedger

C15_Witness ==
  /\ cpc = "success"
  /\ run.sawComplete
  /\ run.sent = Chunks
  /\ ledger = NoLedger

\* C17: at most CONCURRENT_CHUNKS upload-chunk requests of the run are in
\* flight at any moment, retries included.
InFlight == {i \in Chunks : task[i].st = "inflight"}

C17_ChunkConcurrencyCap == Cardinality(InFlight) <= CONCURRENT_CHUNKS

C17_Witness ==
  /\ Cardinality(InFlight) = CONCURRENT_CHUNKS
  /\ \E i \in InFlight : task[i].retryAttempt > 0
  /\ Len(remaining) > CONCURRENT_CHUNKS

\* the files of the batch whose upload is in flight
SmallInFlight == {f \in FileIds : fstat[f] = "inflight" /\ f <= Len(files) /\ files[f] < LARGE_FILE_THRESHOLD}
LargeInFlight == {f \in FileIds : fstat[f] = "inflight" /\ f <= Len(files) /\ files[f] >= LARGE_FILE_THRESHOLD}
Finished == bpc \in {"done", "aborted"}

\* C18: in one call of uploadMultipleFiles at most SMALL_FILE_CONCURRENCY
\* small-file uploads and at most one large-file upload are in flight, and no
\* large-file upload is in flight together with a small-file upload.
C18_BatchConcurrencyCaps ==
  /\ Cardinality(SmallInFlight) <= SMALL_FILE_CONCURRENCY
  /\ Cardinality(LargeInFlight) <= 1
  /\ SmallInFlight = {} \/ LargeInFlight = {}

C18_Witness ==
  /\ bpc = "large"
  /\ Len(smallFiles) > SMALL_FILE_CONCURRENCY
  /\ Cardinality(LargeInFlight) = 1
  /\ \A f \in 1 .. Len(files) : files[f] < LARGE_FILE_THRESHOLD => fstat[f] \in {"ok", "fail"}

\* C19: when uploadMultipleFiles has finished, every file of the batch was
\* attempted and every file whose upload failed is in failedFiles.
C19_FailureDoesNotStopBatch ==
  Finished =>
    \A f \in 1 .. Len(files) :
      /\ fstat[f] # "none"
      /\ fstat[f] \in {"fail", "threw"} => \E k \in 1 .. Len(failedFiles) : failedFiles[k] = f

\* C20: when uploadMultipleFiles has finished, successCount plus the length
\* of failedFiles is the number of files given, and with every upload
\* successful successCount is that number and failedFiles is empty.
C20_EveryFileCountedOnce ==
  Finished =>
    /\ successCount + Len(failedFiles) = Len(files)
    /\ (\A f \in 1 .. Len(files) : fstat[f] = "ok") => (successCount = Len(files) /\ failedFiles = << >>)

\* C16: after checkPendingUploads the list shown holds exactly the keys of
\* the records it found with fewer than TotalChunks completed chunks, and no
\* record with TotalChunks completed chunks is left in the storage.
PendingKeys(st) == {st[j].key : j \in {x \in 1 .. Len(st) : st[x].prefixed /\ IsPending(st[x])}}
StaleKeys(st) == {st[j].key : j \in {x \in 1 .. Len(st) : st[x].prefixed /\ ~IsPending(st[x])}}

C16_ScanReturnsPendingPurgesStale ==
  spc = "shown" =>
    /\ {pendingUploads[j] : j \in 1 .. Len(pendingUploads)} = PendingKeys(scanned)
    /\ StaleKeys(localStorage) = {}

\* C21: every file uploadMultipleFiles puts in largeFiles goes through the
\* chunked orchestrator and every file it puts in smallFiles through the
\* single request.
C21_PartitionMatchesRouting ==
  \A f \in 1 .. Len(files) :
    route[f] # "none" =>
      (route[f] = "chunked" <=> \E k \in 1 .. Len(largeFiles) : largeFiles[k] = f)

\* C22: an upload-chunk request without file name, chunk index, total chunk
\* count or target directory is answered with an error and changes nothing
\* on the disk.
Arrives(h) == handlers[h].pc = "free" /\ handlers'[h].pc # "free"

C22_MissingParameterRejected ==
  [][\A h \in HIds :
       (Arrives(h) /\ handlers'[h].lacks # "none") =>
         /\ handlers'[h].pc = "replied"
         /\ handlers'[h].res = "error"
         /\ slots' = slots
         /\ tempDir' = tempDir
         /\ finalFile' = finalFile]_vars

\* C22 as amended: without file name, chunk index or total chunk count the
\* request is answered with an error and changes nothing on the disk; without
\* target directory it is handled with the uploads root as its target.
C22_RequiredParameterRejected ==
  [][\A h \in HIds :
       /\ (Arrives(h) /\ handlers'[h].lacks \in {"filename", "chunkIndex", "totalChunks"}) =>
            /\ handlers'[h].pc = "replied"
            /\ handlers'[h].res = "error"
            /\ slots' = slots
            /\ tempDir' = tempDir
            /\ finalFile' = finalFile
       /\ (Arrives(h) /\ handlers'[h].lacks = "targetPath") =>
            /\ handlers'[h].pc = "write"
            /\ tempDir']_vars

C22_Witness ==
  /\ \E h \in HIds : handlers[h].lacks = "chunkIndex" /\ handlers[h].pc = "replied"
                     /\ handlers[h].res = "error"
  /\ ~tempDir
  /\ \A i \in Chunks : slots[i] = NoSlot

MatchesKeyPattern(k) ==
  /\ Len(k) > 0
  /\ \A j \in 1 .. Len(k) : k[j] \in Letters \cup DigitChars \cup {".", "_", "-"}

C25_SanitizeIdempotentAndSafe ==
  filename # << >> => (resanitized = sanitized /\ MatchesKeyPattern(sanitized))


\* C23: a check-chunks request changes nothing on the server; when the
\* temporary area does not exist as the request looks for it, it answers with
\* the empty list, not with an error, and does not create the area.
C23_QueryReadOnly ==
  [][query' # query =>
       /\ chunkDir' = chunkDir
       /\ chunkDirExists' = chunkDirExists
       /\ finalPaths' = finalPaths
       /\ (query.pc = "none" /\ ~chunkDirExists =>
             /\ query'.pc = "ok"
             /\ query'.existingChunks = << >>
             /\ ~chunkDirExists')]_vars

C23_Witness ==
  /\ query.pc = "ok"
  /\ ~query.existed
  /\ ~chunkDirExists
  /\ finalPaths # {}

\* C24: the list check-chunks returns is ascending, has no duplicates and holds
\* exactly the indices of the slots of the sanitized name that the temporary
\* area held when it was listed.
C24_ListIsExactlyTheSlots ==
  query.pc = "ok" =>
    /\ \A a, b \in 1 .. Len(query.existingChunks) :
         a < b => query.existingChunks[a] < query.existingChunks[b]
    /\ {query.existingChunks[a] : a \in 1 .. Len(query.existingChunks)}
         = {i \in 0 .. 9 : SlotName(sanitizeFilename(query.name), i) \in query.listing}

C24_Witness ==
  /\ query.pc = "ok"
  /\ Len(query.existingChunks) = 2
  /\ \E f \in query.listing : f \notin FileChunksOf(query.listing, sanitizeFilename(query.name))

\* C26: upload-chunk and check-chunks derive the same key from the same name:
\* an index that upload-chunk stored under a name, and whose slot reassembly has
\* not consumed, is reported by a check-chunks request with that name.
C26_SameKeyBothEndpoints ==
  query.pc = "ok" =>
    \A w \in written :
      (w.name = query.name /\ w.file \in query.listing) => 
        \E a \in 1 .. Len(query.existingChunks) : query.existingChunks[a] = w.idx

C26_Witness ==
  /\ query.pc = "ok"
  /\ sanitizeFilename(query.name) # query.name
  /\ \E w \in written : w.name = query.name /\ w.file \in query.listing /\ w.idx = 1
  /\ query.existingChunks = <<1>>


\* C27: the number of chunks is the size divided by the chunk size, rounded up;
\* every chunk is non-empty, and the chunks cut so far, put one after the
\* other, are the bytes of the file from 0 on without gap or repetition; once
\* all are cut they are the S bytes of the file.
C27_ChunksPartitionFile ==
  fileSize > 0 =>
    /\ TotalChunksOf(fileSize, chunkSize) * chunkSize >= fileSize
    /\ (TotalChunksOf(fileSize, chunkSize) - 1) * chunkSize < fileSize
    /\ \A k \in 1 .. Len(sliced) : sliced[k] # << >>
    /\ \A k \in 1 .. Len(Concat(sliced)) : Concat(sliced)[k] = k - 1
    /\ (sliceIdx = TotalChunksOf(fileSize, chunkSize) => Len(Concat(sliced)) = fileSize)

C27_Witness ==
  /\ fileSize > 0
  /\ sliceIdx = TotalChunksOf(fileSize, chunkSize)
  /\ sliceIdx >= 3
  /\ fileSize % chunkSize # 0


\* C28: a resume query that fails does not fail the upload: the step that
\* handles the failure leaves the record as it was before the query, in memory
\* and in the storage, and sends the first batch of the chunks that the record
\* does not hold; with no chunk left the upload completes.
C28_FailedQueryIsIgnored ==
  [][(cpc = "checking" /\ run'.checkFailed) =>
       LET todo == {i \in Chunks : i >= startChunkIndex /\ i \notin ledger.completedChunks}
       IN /\ cpc' \in {"uploading", "success"}
          /\ run'.K = ledger.completedChunks
          /\ (todo # {} => /\ cpc' = "uploading"
                           /\ ledger' = ledger
                           /\ up' = ledger
                           /\ run'.sent # {}
                           /\ run'.sent \subseteq todo)
          /\ (todo = {} => cpc' = "success")]_vars

C28_Witness ==
  /\ run.checkFailed
  /\ run.sent # {}
  /\ chk = NoCheck
  /\ cpc = "success"


\* C29: a run that is under way ends: the upload completes, fails, or is
\* abandoned by a reload of the page; in the failed state no request is in
\* flight, none is waiting for a retry, and only a new run started by the user
\* changes the state of the client.
C29_RunEndsAndStaysFailed ==
  /\ (cpc \in {"checking", "uploading"}) ~> (cpc \in {"success", "failed", "idle"})
  /\ [](cpc = "failed" =>
          /\ chk = NoCheck
          /\ \A i \in Chunks : task[i].st \notin {"inflight", "backoff"})
  /\ [][cpc = "failed" =>
          \/ UNCHANGED clientVars
          \/ run'.n = run.n + 1]_vars

C29_Witness ==
  /\ cpc = "failed"
  /\ ledger.lastError
  /\ \E i \in Chunks : task[i].st = "rejected"
  /\ \E i \in Chunks : task[i].st = "done"


\* C34: when uploadFileChunked returns success the server holds the final
\* file, assembled from all the chunks of the file, and holds no slot of a
\* file it has not assembled yet.
C34_SuccessMeansAssembled ==
  cpc = "success" => (finalFile = FileBytes /\ FileChunks(slots) = {})

\* C35: once every chunk has been delivered once and every request has been
\* answered, however the requests were interleaved, the final file is the
\* concatenation of the chunks in index order.
C35_ConcurrentDeliveryAssembles ==
  (Quiet /\ \A i \in Chunks : delivered[i] = 1) => finalFile = FileBytes

\* C36: after an upload has completed (the server has assembled the file, the
\* run has ended in success and no request is left) no slot of the file
\* remains in the temporary area.
C36_NoSlotAfterCompletion ==
  (cpc = "success" /\ finalFile = FileBytes /\ \A h \in HIds : handlers[h].pc = "free")
    => FileChunks(slots) = {}


\* C31: after a request has assembled a file, none of the slots 0..N-1 of that
\* file is left in the temporary area, and the temporary area is removed if
\* and only if it holds no slot of any file.
C31_SlotsGoneAreaRemovedWhenEmpty ==
  reply.res = "complete" =>
    /\ \A i \in DirChunks : SlotName(sanitizeFilename(reply.name), i) \notin chunkDir
    /\ (~chunkDirExists <=> chunkDir = {})

C31_Witness ==
  /\ reply.res = "complete"
  /\ chunkDirExists
  /\ chunkDir # {}
  /\ \E f \in finalPaths : f.name = reply.name

\* what app.get('/api/check-chunks') reports for name n on the listing dir
Reported(dir, n) ==
  {MatchIndex(f, CheckKey(n)) : f \in FileChunksOf(dir, CheckKey(n))} \ {-1}

\* C37: the count that upload-chunk compares with totalChunks is the number of
\* indices that check-chunks reports for the same name on the same listing, so
\* that a slot of another file name is never counted.
C37_CountIsOwnSlots ==
  [][reply' # reply =>
       reply'.counted
         = Cardinality(Reported(chunkDir \cup {SlotName(sanitizeFilename(reply'.name), reply'.idx)},
                                reply'.name))]_vars

\* C38: two uploads to the directory whose client-side names differ never
\* write the same slot and never assemble to the same final path.
C38_DifferentNamesDifferentSlots ==
  /\ \A v, w \in written : v.file = w.file => v.name = w.name
  /\ \A f, g \in finalPaths : f.path = g.path => f.name = g.name


\* C32: the wait before retry a (a = 1..5) is base(a) + jitter with base(a) =
\* 1000, 2000, 4000, 8000, 16000 ms, that is min(1000 * 2^(a-1), 30000), and
\* 0 <= jitter <= 30% of base(a); base(a) does not decrease with a and the wait
\* never exceeds 1.3 * 30000 ms.
C32_BackoffWithinBounds ==
  /\ [](waitAttempt >= 1 =>
          /\ waitAttempt <= 5
          /\ baseDelay = <<1000, 2000, 4000, 8000, 16000>>[waitAttempt]
          /\ baseDelay <= 30000
          /\ delay >= baseDelay
          /\ 10 * (delay - baseDelay) <= 3 * baseDelay
          /\ 10 * delay <= 13 * 30000)
  /\ [][baseDelay' >= baseDelay]_vars

C32_Witness ==
  /\ waitAttempt = 5
  /\ baseDelay = 16000
  /\ delay > 20000


\* C33: every key of completedChunks of a persisted record is an index of a
\* chunk of the file, 0 <= key < totalChunks, also after the indices reported
\* by the resume query have been merged.
C33_LedgerKeysInRange ==
  rec # NoLedger => rec.completedChunks \subseteq Chunks


\* C39: a run that sends the file to another directory than the run that
\* created the record skips only chunks that the server holds for the
\* directory of the run.
C39_RecordNotUsedAcrossDirectories ==
  (target # "none" /\ target # progressDir) => skipped \subseteq heldAtStart


\* C40: when upload-chunk answers with the complete signal every byte of every
\* chunk is in the final file: the size of the response is the sum of the
\* chunk sizes and a reader of the file at that moment gets the whole content.
C40_CompleteMeansFlushed ==
  wpc = "replied" => (statSize = FileSize /\ seen = FileBytes)

====
